---- MODULE Spec2Model ----
(***************************************************************************)
(* A model of src/main.py: the /convert and /upload-convert handlers, the  *)
(* Conversion Orchestrator (convert_document), the transient fetch file,   *)
(* the queue and processed directories and the Timeout Middleware.         *)
(*                                                                         *)
(* A string is a sequence of one-character strings, so that suffix,        *)
(* lower-casing and endswith are computed as the code computes them.       *)
(* Each worker process runs one asyncio event loop: a handler keeps the    *)
(* loop from the moment it is resumed until its next await that suspends   *)
(* (or its return), and the timer of asyncio.wait_for can only run while   *)
(* the loop is free.                                                       *)
(***************************************************************************)
EXTENDS Integers, Sequences, FiniteSets, TLC

\* ------------------------------------------------------------------ bounds
NumRequests == 2
NumWorkers == 2

Requests == 1..NumRequests
Workers == 1..NumWorkers

\* --------------------------------------------------------------- constants
UPLOAD_DIR == <<"document_queue", "/">>
MAX_FILE_SIZE == 20 * 1024 * 1024
ALLOWED_EXTENSIONS ==
    { <<".", "p", "d", "f">>, <<".", "d", "o", "c", "x">>, <<".", "p", "p", "t", "x">>,
      <<".", "j", "p", "g">>, <<".", "j", "p", "e", "g">>, <<".", "p", "n", "g">>,
      <<".", "h", "t", "m", "l">>, <<".", "a", "d", "o", "c">>, <<".", "m", "d">>,
      <<".", "m", "a", "r", "k", "d", "o", "w", "n">> }
OutputFormat == {"markdown", "json", "all"}

TMP_HTML == <<"t", "m", "p", ".", "h", "t", "m", "l">>
DOT_HTML == <<".", "h", "t", "m", "l">>

\* ------------------------------------------------------------------ inputs
Filenames ==
    { <<"a", ".", "P", "D", "F">>, <<"a", ".", "h", "t", "m", "l">>, <<"a", ".", "e", "x", "e">> }
Sizes == { MAX_FILE_SIZE, MAX_FILE_SIZE + 1 }
Urls ==
    { <<"h", "t", "t", "p", ":", "/", "/", "h", "/", "p", ".", "h", "t", "m", "l">>,
      <<"d", ".", "p", "d", "f">> }
\* the requests of the model all arrive on one day
Days == { "20261105" }

\* ------------------------------------------------------- string functions
UpperLetters == <<"A", "B", "C", "D", "E", "F", "G", "H", "I", "J", "K", "L", "M",
                  "N", "O", "P", "Q", "R", "S", "T", "U", "V", "W", "X", "Y", "Z">>
LowerLetters == <<"a", "b", "c", "d", "e", "f", "g", "h", "i", "j", "k", "l", "m",
                  "n", "o", "p", "q", "r", "s", "t", "u", "v", "w", "x", "y", "z">>

LowerChar(c) ==
    IF \E i \in 1..Len(UpperLetters) : UpperLetters[i] = c
    THEN LowerLetters[CHOOSE i \in 1..Len(UpperLetters) : UpperLetters[i] = c]
    ELSE c

Lower(s) == [i \in 1..Len(s) |-> LowerChar(s[i])]

\* str.rfind("."), 1-based; 0 when there is no dot
RFindDot(s) ==
    IF \E i \in 1..Len(s) : s[i] = "."
    THEN CHOOSE i \in 1..Len(s) : s[i] = "." /\ \A j \in (i+1)..Len(s) : s[j] # "."
    ELSE 0

\* pathlib: the suffix of the final component (the model's names have one
\* component): empty when the name has no dot, starts or ends with its last dot
Suffix(name) ==
    LET i == RFindDot(name)
    IN  IF 1 < i /\ i < Len(name) THEN SubSeq(name, i, Len(name)) ELSE <<>>

EndsWith(s, suf) ==
    /\ Len(s) >= Len(suf)
    /\ SubSeq(s, Len(s) - Len(suf) + 1, Len(s)) = suf

StartsWith(s, pre) ==
    /\ Len(s) >= Len(pre)
    /\ SubSeq(s, 1, Len(pre)) = pre

Min(a, b) == IF a <= b THEN a ELSE b

\* ------------------------------------------------------------------- state
VARIABLES
    pc,         \* where each request's handler is
    req,        \* each request's inputs: route, src (url or filename), size, output_format
    worker,     \* the worker process that serves each request
    loop,       \* per worker: the request whose handler holds the event loop, or 0
    expired,    \* the request's wait_for deadline has elapsed
    local,      \* handler locals: new_filename, temp_file, result
    resp,       \* the response: status and the key set of its body
    obs,        \* what the handler did: history of the request
    queue,      \* names of the files in UPLOAD_DIR
    processed,  \* names of the files in PROCESSED_DIR
    tmp         \* tmp.html: 0 when absent, else the request whose fetched content it holds

vars == <<pc, req, worker, loop, expired, local, resp, obs, queue, processed, tmp>>

NoReq == [route |-> "none", src |-> <<>>, size |-> 0, output_format |-> "markdown"]
NoLocal == [new_filename |-> <<>>, temp_file |-> FALSE, result |-> [status |-> 0, keys |-> {}]]
NoResp == [status |-> 0, keys |-> {}]
NoObs == [constructed |-> FALSE, fetched |-> FALSE, convArg |-> <<>>, raised |-> FALSE,
          converterOK |-> FALSE, escaped |-> FALSE, converted |-> 0, opened |-> FALSE,
          cancelled |-> FALSE]

Suspended == {"u_read1", "u_seek", "u_read2"}

InitCommon ==
    /\ pc = [r \in Requests |-> "idle"]
    /\ req = [r \in Requests |-> NoReq]
    /\ loop = [w \in Workers |-> 0]
    /\ expired = [r \in Requests |-> FALSE]
    /\ local = [r \in Requests |-> NoLocal]
    /\ resp = [r \in Requests |-> NoResp]
    /\ obs = [r \in Requests |-> NoObs]
    /\ queue = {}
    /\ processed = {}
    /\ tmp = 0

\* one worker process: `app = FastAPI()` served by a single event loop
Init ==
    /\ InitCommon
    /\ worker = [r \in Requests |-> 1]

\* several worker processes sharing the working directory
InitWorkers ==
    /\ InitCommon
    /\ worker \in [Requests -> Workers]

\* ---------------------------------------------------------------- helpers
Free(w) == loop[w] = 0

\* asyncio runs a due timer callback before it resumes another ready task:
\* a request whose deadline has elapsed while it is suspended is timed out
\* as soon as its worker's loop is free
TimerDue(w) ==
    \E q \in Requests : worker[q] = w /\ expired[q] /\ pc[q] \in Suspended

\* the handler of r may take a step: it holds the loop, or it is suspended,
\* the loop is free and no timer is due
CanRun(r) ==
    \/ loop[worker[r]] = r
    \/ /\ pc[r] \in Suspended
       /\ Free(worker[r])
       /\ ~TimerDue(worker[r])

Hold(r) == [loop EXCEPT ![worker[r]] = r]
Release(r) == [loop EXCEPT ![worker[r]] = 0]

Err500 == [status |-> 500, keys |-> {"error"}]
Detail(code) == [status |-> code, keys |-> {"detail"}]
ServerError == [status |-> 500, keys |-> {}]
Timeout408 == [status |-> 408, keys |-> {"error"}]

\* line 178: file_extension not in ALLOWED_EXTENSIONS
ExtensionRejected(filename) == Lower(Suffix(filename)) \notin ALLOWED_EXTENSIONS

\* the size check with >= for >: a file of exactly the ceiling is rejected
SizeExceeds_Inclusive(size) == Min(size, MAX_FILE_SIZE + 1) >= MAX_FILE_SIZE

\* lines 185-186: len(await file.read(MAX_FILE_SIZE + 1)) > MAX_FILE_SIZE
SizeExceeds(size) == Min(size, MAX_FILE_SIZE + 1) > MAX_FILE_SIZE

\* lines 196-197: f"{timestamp}_{file.filename}"
NewFilename(day, filename) == <<day, "_">> \o filename

QueuePath(n) == UPLOAD_DIR \o n

\* the url argument of convert_document: the query parameter on /convert,
\* str(queue_filepath) on /upload-convert
Url(r) == IF req[r].route = "convert" THEN req[r].src ELSE QueuePath(local[r].new_filename)

\* the string names a resource an HTTP client can reach
IsHttpUrl(url) == StartsWith(url, <<"h", "t", "t", "p", ":", "/", "/">>)

\* line 109: the else branch, which fetches
FetchPath(r) == EndsWith(Url(r), DOT_HTML)

\* the ALL branch returning the markdown export alone
ResponseKeys_AllAsMarkdown(output_format) ==
    CASE output_format = "markdown" -> {"markdown"}
      [] output_format = "json" -> {"json"}
      [] output_format = "all" -> {"markdown"}

\* lines 129-134
ResponseKeys(output_format) ==
    CASE output_format = "markdown" -> {"markdown"}
      [] output_format = "json" -> {"json"}
      [] output_format = "all" -> {"markdown", "json"}

\* whether the file the converter is given exists
FileExists(path) ==
    IF path = TMP_HTML THEN tmp # 0
    ELSE IF StartsWith(path, UPLOAD_DIR) THEN SubSeq(path, Len(UPLOAD_DIR) + 1, Len(path)) \in queue
    ELSE TRUE

\* a copy in place of the move: the source stays in the queue directory
MoveFile_Copy(n) ==
    /\ queue' = queue
    /\ processed' = processed \cup {n}

\* line 211: shutil.move(queue_filepath, processed_filepath), the source existing
MoveFile(n) ==
    /\ queue' = queue \ {n}
    /\ processed' = processed \cup {n}

\* the request is over: its response is sent and its handler leaves the loop
Respond(r, response) ==
    /\ pc' = [pc EXCEPT ![r] = "done"]
    /\ resp' = [resp EXCEPT ![r] = response]
    /\ loop' = Release(r)

\* lines 215-222: the handler's except around convert_document and the move
HandlerExcept(r) ==
    /\ queue' = queue \ {local[r].new_filename}
    /\ Respond(r, Detail(500))

\* convert_document returns res: to the framework on /convert, to
\* upload_and_convert_document (line 208) on /upload-convert
Return(r, res, loc) ==
    /\ local' = [local EXCEPT ![r] = [loc EXCEPT !.result = res]]
    /\ IF req[r].route = "convert"
       THEN Respond(r, res)
       ELSE /\ pc' = [pc EXCEPT ![r] = "u_move"]
            /\ UNCHANGED <<resp, loop>>

\* ---------------------------------------------------------------- actions
\* a request arrives: dispatch starts the deadline and the handler starts
Arrive(r) ==
    /\ pc[r] = "idle"
    /\ \A q \in Requests : q < r => pc[q] # "idle"
    /\ Free(worker[r])
    /\ ~TimerDue(worker[r])
    /\ \/ \E u \in Urls :
          /\ req' = [req EXCEPT ![r] = [route |-> "convert", src |-> u, size |-> 0,
                                        output_format |-> "markdown"]]
          /\ pc' = [pc EXCEPT ![r] = "c_construct"]
       \/ \E n \in Filenames, s \in Sizes :
          /\ req' = [req EXCEPT ![r] = [route |-> "upload", src |-> n, size |-> s,
                                        output_format |-> "markdown"]]
          /\ pc' = [pc EXCEPT ![r] = "u_validate"]
    /\ loop' = Hold(r)
    /\ UNCHANGED <<worker, expired, local, resp, obs, queue, processed, tmp>>

\* lines 175-185: the extension check, then await file.read(MAX_FILE_SIZE + 1)
ValidateExtension(r) ==
    /\ pc[r] = "u_validate"
    /\ CanRun(r)
    /\ IF ExtensionRejected(req[r].src)
       THEN Respond(r, Detail(400))
       ELSE /\ pc' = [pc EXCEPT ![r] = "u_read1"]
            /\ loop' = Release(r)
            /\ UNCHANGED resp
    /\ UNCHANGED <<req, worker, expired, local, obs, queue, processed, tmp>>

\* lines 185-193: the size check, then await file.seek(0)
CheckSize(r) ==
    /\ pc[r] = "u_read1"
    /\ CanRun(r)
    /\ IF SizeExceeds(req[r].size)
       THEN Respond(r, Detail(400))
       ELSE /\ pc' = [pc EXCEPT ![r] = "u_seek"]
            /\ loop' = Release(r)
            /\ UNCHANGED resp
    /\ UNCHANGED <<req, worker, expired, local, obs, queue, processed, tmp>>

\* lines 195-203: the names, open(queue_filepath, "wb"), then await file.read()
OpenQueueFile(r) ==
    /\ pc[r] = "u_seek"
    /\ CanRun(r)
    /\ \E day \in Days :
       LET n == NewFilename(day, req[r].src)
       IN  /\ local' = [local EXCEPT ![r].new_filename = n]
           /\ queue' = queue \cup {n}
    /\ obs' = [obs EXCEPT ![r].opened = TRUE]
    /\ pc' = [pc EXCEPT ![r] = "u_read2"]
    /\ loop' = Release(r)
    /\ UNCHANGED <<req, worker, expired, resp, processed, tmp>>

\* lines 203-208: the content is written, the file closed, convert_document called
WriteQueueFile(r) ==
    /\ pc[r] = "u_read2"
    /\ CanRun(r)
    /\ pc' = [pc EXCEPT ![r] = "c_construct"]
    /\ loop' = Hold(r)
    /\ UNCHANGED <<req, worker, expired, local, resp, obs, queue, processed, tmp>>

\* line 106: converter = DocumentConverter(), before the try of line 108; an
\* exception leaves convert_document: the framework answers 500 on /convert,
\* the handler's except of line 215 catches it on /upload-convert
Construct(r) ==
    /\ pc[r] = "c_construct"
    /\ CanRun(r)
    /\ \/ /\ pc' = [pc EXCEPT ![r] = IF FetchPath(r) THEN "c_fetch" ELSE "c_convert"]
          /\ obs' = [obs EXCEPT ![r].constructed = TRUE]
          /\ UNCHANGED <<resp, loop, queue>>
       \/ /\ obs' = [obs EXCEPT ![r].escaped = TRUE, ![r].raised = TRUE]
          /\ IF req[r].route = "convert"
             THEN Respond(r, ServerError) /\ UNCHANGED queue
             ELSE HandlerExcept(r)
    /\ UNCHANGED <<req, worker, expired, local, processed, tmp>>

\* lines 113-114: requests.get(url); a failure is caught at line 119. The
\* request can be answered only when url names an HTTP resource: for the
\* path of a queue file the client raises
Fetch(r) ==
    /\ pc[r] = "c_fetch"
    /\ CanRun(r)
    /\ \/ /\ IsHttpUrl(Url(r))
          /\ pc' = [pc EXCEPT ![r] = "c_write"]
          /\ obs' = [obs EXCEPT ![r].fetched = TRUE]
          /\ local' = [local EXCEPT ![r].temp_file = FALSE]
       \/ /\ pc' = [pc EXCEPT ![r] = "c_finally"]
          /\ obs' = [obs EXCEPT ![r].fetched = TRUE, ![r].raised = TRUE]
          /\ local' = [local EXCEPT ![r].temp_file = FALSE, ![r].result = Err500]
    /\ UNCHANGED <<req, worker, loop, expired, resp, queue, processed, tmp>>

\* lines 115-117: open("tmp.html", "w") creates the file; temp_file is set
\* only after f.write returned
WriteTmp(r) ==
    /\ pc[r] = "c_write"
    /\ CanRun(r)
    /\ tmp' = r
    /\ \/ /\ pc' = [pc EXCEPT ![r] = "c_convert"]
          /\ local' = [local EXCEPT ![r].temp_file = TRUE]
          /\ UNCHANGED obs
       \/ /\ pc' = [pc EXCEPT ![r] = "c_finally"]
          /\ local' = [local EXCEPT ![r].result = Err500]
          /\ obs' = [obs EXCEPT ![r].raised = TRUE]
    /\ UNCHANGED <<req, worker, loop, expired, resp, queue, processed>>

\* lines 110 and 118: converter.convert is entered; it is synchronous
ConvertBegin(r) ==
    /\ pc[r] = "c_convert"
    /\ CanRun(r)
    /\ pc' = [pc EXCEPT ![r] = "c_converting"]
    /\ obs' = [obs EXCEPT ![r].convArg = IF FetchPath(r) THEN TMP_HTML ELSE Url(r)]
    /\ UNCHANGED <<req, worker, loop, expired, local, resp, queue, processed, tmp>>

\* converter.convert returns or raises (caught at line 119 or line 135)
ConvertEnd(r) ==
    /\ pc[r] = "c_converting"
    /\ CanRun(r)
    /\ \/ /\ FileExists(obs[r].convArg)
          /\ pc' = [pc EXCEPT ![r] = IF FetchPath(r) THEN "c_finally" ELSE "c_export"]
          /\ obs' = [obs EXCEPT ![r].converted = IF FetchPath(r) THEN tmp ELSE 0]
          /\ UNCHANGED <<local, resp, loop>>
       \/ /\ obs' = [obs EXCEPT ![r].raised = TRUE]
          /\ IF FetchPath(r)
             THEN /\ pc' = [pc EXCEPT ![r] = "c_finally"]
                  /\ local' = [local EXCEPT ![r].result = Err500]
                  /\ UNCHANGED <<resp, loop>>
             ELSE Return(r, Err500, local[r])
    /\ UNCHANGED <<req, worker, expired, queue, processed, tmp>>

\* lines 124-126: finally: if temp_file: os.remove("tmp.html"); then the
\* pending return of line 120, or on to line 129
RemoveTmp(r) ==
    /\ pc[r] = "c_finally"
    /\ CanRun(r)
    /\ IF local[r].temp_file /\ tmp = 0
       THEN \* os.remove raises FileNotFoundError, caught at line 135
            /\ Return(r, Err500, local[r])
            /\ UNCHANGED tmp
       ELSE /\ tmp' = IF local[r].temp_file THEN 0 ELSE tmp
            /\ IF local[r].result.status # 0
               THEN Return(r, local[r].result, local[r])
               ELSE /\ pc' = [pc EXCEPT ![r] = "c_export"]
                    /\ UNCHANGED <<local, resp, loop>>
    /\ UNCHANGED <<req, worker, expired, obs, queue, processed>>

\* lines 129-139: the result is exported in the requested format; the
\* output_format parameter is first read here, so its value is drawn here
Export(r) ==
    /\ pc[r] = "c_export"
    /\ CanRun(r)
    /\ \E f \in OutputFormat :
       /\ req' = [req EXCEPT ![r].output_format = f]
       /\ \/ /\ Return(r, [status |-> 200, keys |-> ResponseKeys(f)], local[r])
             /\ obs' = [obs EXCEPT ![r].converterOK = TRUE]
          \/ /\ Return(r, Err500, local[r])
             /\ obs' = [obs EXCEPT ![r].raised = TRUE]
    /\ UNCHANGED <<worker, expired, queue, processed, tmp>>

\* lines 208-222: convert_document has returned; shutil.move, return result
Move(r) ==
    /\ pc[r] = "u_move"
    /\ CanRun(r)
    /\ IF local[r].new_filename \in queue
       THEN /\ MoveFile(local[r].new_filename)
            /\ Respond(r, local[r].result)
       ELSE /\ HandlerExcept(r)
            /\ UNCHANGED processed
    /\ UNCHANGED <<req, worker, expired, local, obs, tmp>>

\* UPLOAD_TIMEOUT seconds have passed since the request arrived
DeadlineElapses(r) ==
    /\ pc[r] \notin {"idle", "done"}
    /\ ~expired[r]
    /\ expired' = [expired EXCEPT ![r] = TRUE]
    /\ UNCHANGED <<pc, req, worker, loop, local, resp, obs, queue, processed, tmp>>

\* lines 41-48: wait_for's timer runs: the suspended handler is cancelled
\* (CancelledError is no Exception: neither except of the handler runs) and
\* the middleware answers 408
Timeout(r) ==
    /\ expired[r]
    /\ pc[r] \in Suspended
    /\ Free(worker[r])
    /\ pc' = [pc EXCEPT ![r] = "done"]
    /\ resp' = [resp EXCEPT ![r] = Timeout408]
    /\ obs' = [obs EXCEPT ![r].cancelled = TRUE]
    /\ UNCHANGED <<req, worker, loop, expired, local, queue, processed, tmp>>

Next ==
    \E r \in Requests :
        \/ Arrive(r)
        \/ ValidateExtension(r)
        \/ CheckSize(r)
        \/ OpenQueueFile(r)
        \/ WriteQueueFile(r)
        \/ Construct(r)
        \/ Fetch(r)
        \/ WriteTmp(r)
        \/ ConvertBegin(r)
        \/ ConvertEnd(r)
        \/ RemoveTmp(r)
        \/ Export(r)
        \/ Move(r)
        \/ DeadlineElapses(r)
        \/ Timeout(r)

Spec == Init /\ [][Next]_vars

SpecWorkers == InitWorkers /\ [][Next]_vars

TypeOK ==
    /\ queue \subseteq { NewFilename(d, n) : d \in Days, n \in Filenames }
    /\ processed \subseteq { NewFilename(d, n) : d \in Days, n \in Filenames }
    /\ tmp \in {0} \cup Requests
    /\ \A w \in Workers : loop[w] \in {0} \cup Requests

\* -------------------------------------------------------------- properties
\* the step in which request r completes (its response is determined)
Completes(r) == pc[r] # "done" /\ pc'[r] = "done"

IsUpload(r) == req[r].route = "upload"

\* the allow-list and the ceiling as the specification states them
SpecAllowList ==
    { <<"p", "d", "f">>, <<"d", "o", "c", "x">>, <<"p", "p", "t", "x">>, <<"j", "p", "g">>,
      <<"j", "p", "e", "g">>, <<"p", "n", "g">>, <<"h", "t", "m", "l">>, <<"a", "d", "o", "c">>,
      <<"m", "d">>, <<"m", "a", "r", "k", "d", "o", "w", "n">> }
SpecCeiling == 20 * 1024 * 1024

SpecInvalid(filename, size) ==
    LET ext == Lower(Suffix(filename))
    IN  \/ ext = <<>>
        \/ Tail(ext) \notin SpecAllowList
        \/ size > SpecCeiling

\* C1: when an /upload-convert request that passed validation completes and
\* the External Converter or the Fetcher raised inside convert_document, its
\* file is neither in the queue directory nor in the processed directory.
C1_FailedUploadLeavesNoFile ==
    [][\A r \in Requests :
          (Completes(r) /\ IsUpload(r) /\ obs'[r].raised)
              => /\ local[r].new_filename \notin queue'
                 /\ local[r].new_filename \notin processed']_vars

\* C2: when an /upload-convert request completes with status 200, the file
\* <YYYYMMDD>_<original-filename> is in the processed directory and no file
\* of that name is in the queue directory.
C2_SuccessfulUploadIsProcessed ==
    [][\A r \in Requests :
          (Completes(r) /\ IsUpload(r) /\ resp'[r].status = 200)
              => \E d \in Days :
                    LET n == <<d, "_">> \o req[r].src
                    IN  n \in processed' /\ n \notin queue']_vars

C2_Witness ==
    \E r \in Requests :
        /\ pc[r] = "done"
        /\ IsUpload(r)
        /\ resp[r].status = 200
        /\ local[r].new_filename \in processed
        /\ local[r].new_filename \notin queue

\* C3: however an /upload-convert request completes (200, 400, 500 or 408),
\* the file it wrote to the queue directory is not in the queue directory
\* when it has completed.
C3_QueueFileGoneOnCompletion ==
    [][\A r \in Requests :
          (Completes(r) /\ IsUpload(r) /\ obs[r].opened)
              => local[r].new_filename \notin queue']_vars

\* C4: a completed request whose deadline elapsed while it was being handled
\* has status 408, whatever its handler was doing; one whose handler finished
\* before the deadline has its handler's response, not 408.
C4_OverrunIffStatus408 ==
    \A r \in Requests :
        pc[r] = "done" => (expired[r] <=> resp[r].status = 408)

\* C5: every step of an upload that validation rejects (extension outside the
\* allow-list, or size strictly above the ceiling) leaves the queue and the
\* processed directories unchanged and invokes neither the External Converter
\* nor the Fetcher; the request ends with status 400 (unless the middleware
\* cancelled it first); an upload that validation accepts, a file of exactly
\* the ceiling included, never ends with status 400.
C5_RejectedUploadHasNoEffect ==
    [][\A r \in Requests :
          (pc'[r] # pc[r] /\ req'[r].route = "upload")
              => IF SpecInvalid(req'[r].src, req'[r].size)
                 THEN /\ UNCHANGED <<queue, processed>>
                      /\ ~obs'[r].constructed
                      /\ ~obs'[r].fetched
                      /\ obs'[r].convArg = <<>>
                      /\ (pc'[r] = "done" /\ ~obs'[r].cancelled) => resp'[r].status = 400
                 ELSE pc'[r] = "done" => resp'[r].status # 400]_vars

C5_Witness ==
    \E r \in Requests :
        /\ pc[r] = "done"
        /\ IsUpload(r)
        /\ ~ExtensionRejected(req[r].src)
        /\ req[r].size = MAX_FILE_SIZE + 1
        /\ resp[r].status = 400
        /\ processed # {}

C7_NoExceptionEscapesConvertDocument ==
    \A r \in Requests :
        obs[r].raised
            => /\ ~obs[r].escaped
               /\ pc[r] \in {"u_move", "done"} => local[r].result = Err500

\* C8: when a /convert request that took the fetch path completes, tmp.html
\* does not exist, whether the fetch, the write or the conversion failed.
C8_TransientFileRemoved ==
    [][\A r \in Requests :
          (Completes(r) /\ req[r].route = "convert" /\ FetchPath(r))
              => tmp' = 0]_vars

\* C9: for an upload that passed validation, whatever its extension, the
\* Fetcher makes no HTTP request and the External Converter is given the path
\* of the file in the queue directory.
C9_UploadIsConvertedFromQueuePath ==
    \A r \in Requests :
        (IsUpload(r) /\ obs[r].constructed)
            => /\ ~obs[r].fetched
               /\ pc[r] \in {"u_move", "done"}
                      => obs[r].convArg = QueuePath(local[r].new_filename)

\* C10: requests share nothing but the queue and processed directories, so the
\* External Converter of a request never reads content that another request
\* put there through a file outside those directories.
C10_NoInterferenceOutsideDirectories ==
    \A r \in Requests : obs[r].converted \in {0, r}

====
